---- MODULE Spec2Model ----
(***************************************************************************)
(* A model of tools/doc_combiner.py: discovery of the Markdown files of a  *)
(* directory, the reader with its encoding fallback, the title extractor,  *)
(* the combiner (table-of-contents pass and body pass) and the writer, as  *)
(* main() runs them.                                                       *)
(*                                                                         *)
(* Text is a sequence of Unicode code points (naturals), bytes are naturals*)
(* below 256, so that decoding, case mapping, whitespace and the two       *)
(* regular expressions are computed rather than assumed.                   *)
(***************************************************************************)
EXTENDS Naturals, Sequences, FiniteSets

\* ------------------------------------------------------------------ bounds

\* Longest file content (in bytes) of the one-file specification.
MaxLen == 5

\* Most directory entries of the many-file specification.
MaxEntries == 3

\* ------------------------------------------------------------- characters

HASH == 35
SPACE == 32
TAB == 9
NL == 10
CR == 13
DOT == 46
HYPHEN == 45
UNDERSCORE == 95
COLON == 58

\* str.isspace(), which is also what \s of the re module matches in a str pattern.
IsSpace(c) ==
    c \in {9, 10, 11, 12, 13, 28, 29, 30, 31, 32, 133, 160, 5760, 8232, 8233, 8239, 8287, 12288}
        \cup (8192..8202)

\* Upper- and lower-case letters of ASCII and Latin-1 (the cased characters the
\* modelled names and contents can hold).
IsUpperCh(c) == (c >= 65 /\ c <= 90) \/ (c >= 192 /\ c <= 222 /\ c # 215)

IsLowerCh(c) == (c >= 97 /\ c <= 122) \/ (c >= 224 /\ c <= 254 /\ c # 247)

IsCased(c) == IsUpperCh(c) \/ IsLowerCh(c)

LowerCh(c) == IF IsUpperCh(c) THEN c + 32 ELSE c

UpperCh(c) == IF IsLowerCh(c) THEN c - 32 ELSE c

\* str.lower()
lower(s) == [k \in 1..Len(s) |-> LowerCh(s[k])]

\* str.startswith / str.endswith
startswith(s, p) == Len(s) >= Len(p) /\ SubSeq(s, 1, Len(p)) = p

endswith(s, p) == Len(s) >= Len(p) /\ SubSeq(s, Len(s) - Len(p) + 1, Len(s)) = p

\* str.lstrip(), str.rstrip(), str.strip() with no argument
RECURSIVE lstrip(_)
lstrip(s) ==
    IF s # <<>> /\ IsSpace(Head(s)) THEN lstrip(Tail(s)) ELSE s

RECURSIVE rstrip(_)
rstrip(s) ==
    IF s # <<>> /\ IsSpace(s[Len(s)]) THEN rstrip(SubSeq(s, 1, Len(s) - 1)) ELSE s

strip(s) == rstrip(lstrip(s))

\* str.replace(old, new) for one-character old and new
replace(s, old, new) == [k \in 1..Len(s) |-> IF s[k] = old THEN new ELSE s[k]]

\* str.replace(old, '') for a one-character old
RECURSIVE remove(_, _)
remove(s, old) ==
    IF s = <<>> THEN <<>>
    ELSE IF Head(s) = old THEN remove(Tail(s), old)
    ELSE <<Head(s)>> \o remove(Tail(s), old)

\* str.title(): a cased character is upper-cased when the character before it is
\* not cased, and lower-cased otherwise.
title_case(s) ==
    [k \in 1..Len(s) |->
        IF k > 1 /\ IsCased(s[k - 1]) THEN LowerCh(s[k]) ELSE UpperCh(s[k])]

\* Comparison of two str values, as list.sort() compares them: by code point,
\* a proper prefix first.
RECURSIVE StrLess(_, _)
StrLess(a, b) ==
    IF b = <<>> THEN FALSE
    ELSE IF a = <<>> THEN TRUE
    ELSE IF Head(a) # Head(b) THEN Head(a) < Head(b)
    ELSE StrLess(Tail(a), Tail(b))

\* Index of the last character of the line that holds position q: the position
\* before the next '\n', or the end of the text.  It is where a greedy ".+"
\* started at q stops.
RECURSIVE LineEnd(_, _)
LineEnd(s, q) ==
    IF q >= Len(s) \/ s[q + 1] = NL THEN q ELSE LineEnd(s, q + 1)

\* Length of the run of whitespace that starts at position q (0 when there is none):
\* what a greedy "\s+" takes first.
RECURSIVE SpaceRun(_, _)
SpaceRun(s, q) ==
    IF q <= Len(s) /\ IsSpace(s[q]) THEN 1 + SpaceRun(s, q + 1) ELSE 0

\* ----------------------------------------------------------------- reader

\* bytes.decode('utf-8'), strict: the number of bytes of the well-formed sequence
\* that starts the byte string b, 0 when b starts with none.
Utf8Width(b) ==
    LET b1 == b[1]
        n  == Len(b)
        Cont(k) == k <= n /\ b[k] >= 128 /\ b[k] <= 191
    IN  IF b1 < 128 THEN 1
        ELSE IF b1 >= 194 /\ b1 <= 223 THEN (IF Cont(2) THEN 2 ELSE 0)
        ELSE IF b1 = 224 THEN (IF Cont(2) /\ b[2] >= 160 /\ Cont(3) THEN 3 ELSE 0)
        ELSE IF b1 = 237 THEN (IF Cont(2) /\ b[2] <= 159 /\ Cont(3) THEN 3 ELSE 0)
        ELSE IF b1 >= 225 /\ b1 <= 239 THEN (IF Cont(2) /\ Cont(3) THEN 3 ELSE 0)
        ELSE IF b1 = 240 THEN (IF Cont(2) /\ b[2] >= 144 /\ Cont(3) /\ Cont(4) THEN 4 ELSE 0)
        ELSE IF b1 = 244 THEN (IF Cont(2) /\ b[2] <= 143 /\ Cont(3) /\ Cont(4) THEN 4 ELSE 0)
        ELSE IF b1 >= 241 /\ b1 <= 243 THEN (IF Cont(2) /\ Cont(3) /\ Cont(4) THEN 4 ELSE 0)
        ELSE 0

\* The code point of a well-formed sequence of w bytes at the start of b.
Utf8CodePoint(b, w) ==
    IF w = 1 THEN b[1]
    ELSE IF w = 2 THEN (b[1] - 192) * 64 + (b[2] - 128)
    ELSE IF w = 3 THEN (b[1] - 224) * 4096 + (b[2] - 128) * 64 + (b[3] - 128)
    ELSE (b[1] - 240) * 262144 + (b[2] - 128) * 4096 + (b[3] - 128) * 64 + (b[4] - 128)

\* Decoding results: ok is FALSE for UnicodeDecodeError.
DecodeError == [ok |-> FALSE, text |-> <<>>]

Decoded(t) == [ok |-> TRUE, text |-> t]

RECURSIVE decode_utf8(_)
decode_utf8(b) ==
    IF b = <<>> THEN Decoded(<<>>)
    ELSE LET w == Utf8Width(b)
         IN  IF w = 0 THEN DecodeError
             ELSE LET rest == decode_utf8(SubSeq(b, w + 1, Len(b)))
                  IN  IF rest.ok THEN Decoded(<<Utf8CodePoint(b, w)>> \o rest.text)
                      ELSE DecodeError

\* bytes.decode('latin-1'): every byte is the code point of the same number.
decode_latin_1(b) == Decoded(b)

\* bytes.decode('windows-1252'): Latin-1 but for 0x80..0x9F, of which five bytes
\* are undefined.
Cp1252High ==
    <<8364, 0, 8218, 402, 8222, 8230, 8224, 8225, 710, 8240, 352, 8249, 338, 0, 381, 0,
      0, 8216, 8217, 8220, 8221, 8226, 8211, 8212, 732, 8482, 353, 8250, 339, 0, 382, 376>>

Cp1252Char(c) == IF c >= 128 /\ c <= 159 THEN Cp1252High[c - 127] ELSE c

decode_windows_1252(b) ==
    IF \E k \in 1..Len(b) : Cp1252Char(b[k]) = 0 THEN DecodeError
    ELSE Decoded([k \in 1..Len(b) |-> Cp1252Char(b[k])])

\* bytes.decode('ascii')
decode_ascii(b) ==
    IF \E k \in 1..Len(b) : b[k] >= 128 THEN DecodeError ELSE Decoded(b)

\* ENCODING, tried first, and the list the handler of its failure goes through.
ENCODING == "utf-8"

\* A fallback list that tries Windows-1252 before Latin-1.
encodings_windows_1252_first == <<"windows-1252", "latin-1", "ascii">>

encodings == <<"latin-1", "windows-1252", "ascii">>

decode(b, encoding) ==
    IF encoding = "utf-8" THEN decode_utf8(b)
    ELSE IF encoding = "latin-1" THEN decode_latin_1(b)
    ELSE IF encoding = "windows-1252" THEN decode_windows_1252(b)
    ELSE decode_ascii(b)

\* A text-mode file object opened without newline= translates "\r\n" and "\r"
\* to "\n" on read().
RECURSIVE universal_newlines(_)
universal_newlines(t) ==
    IF t = <<>> THEN <<>>
    ELSE IF Head(t) = CR
         THEN <<NL>> \o universal_newlines(
                  IF Len(t) >= 2 /\ t[2] = NL THEN SubSeq(t, 3, Len(t)) ELSE Tail(t))
         ELSE <<Head(t)>> \o universal_newlines(Tail(t))

\* open(file_path, 'r', encoding=encoding) followed by file.read()
open_read(b, encoding) ==
    LET d == decode(b, encoding)
    IN  IF d.ok THEN Decoded(universal_newlines(d.text)) ELSE DecodeError

\* What a path holds on disk: nothing, something open() refuses with an OSError
\* (a directory, a file without read permission, a file removed between the test
\* of line 92 and the open of line 96), or a file of bytes.
Missing == [kind |-> "missing", bytes |-> <<>>]

Unreadable == [kind |-> "unreadable", bytes |-> <<>>]

File(b) == [kind |-> "file", bytes |-> b]

\* What a call returns or raises: exc is "" when it returns.
Returns(v) == [exc |-> "", msg |-> "", value |-> v]

Raises(type, msg) == [exc |-> type, msg |-> msg, value |-> <<>>]

\* The fallback loop of read_file_content: the first of encodings[k..] that
\* decodes; when none does, the raise after the loop, which calls
\* UnicodeDecodeError with one argument where it takes five and so raises
\* TypeError.  The raise happens inside the handler of UnicodeDecodeError, so the
\* "except Exception" clause of the same try statement does not see it.
RECURSIVE read_fallback(_, _)
read_fallback(b, k) ==
    IF k > Len(encodings)
    THEN Raises("TypeError", "function takes exactly 5 arguments (1 given)")
    ELSE LET r == open_read(b, encodings[k])
         IN  IF r.ok THEN Returns(r.text) ELSE read_fallback(b, k + 1)

read_file_content(st) ==
    IF st.kind = "missing" THEN Raises("FileNotFoundError", "File not found")
    ELSE IF st.kind = "unreadable" THEN Raises("Exception", "Error reading file")
    ELSE LET r == open_read(st.bytes, ENCODING)
         IN  IF r.ok THEN Returns(r.text) ELSE read_fallback(st.bytes, 1)

\* -------------------------------------------------------- title extractor

\* os.path.splitext(name)[0] of a name without directory part: the name up to its
\* last dot, unless only dots come before that dot.
splitext_root(name) ==
    LET dots == {k \in 1..Len(name) : name[k] = DOT}
    IN  IF dots = {} THEN name
        ELSE LET d == CHOOSE k \in dots : \A j \in dots : j <= k
             IN  IF \E j \in 1..(d - 1) : name[j] # DOT THEN SubSeq(name, 1, d - 1)
                 ELSE name

\* The title taken from the file name when the content has no heading.
filename_title(name) ==
    title_case(replace(replace(splitext_root(name), HYPHEN, SPACE), UNDERSCORE, SPACE))

\* The ways "#\s+(.+)$" can match with its "#" at position p of s: the lengths k of
\* the whitespace "\s+" takes, such that a character other than '\n' follows for
\* ".+" to start on.
HeadingSplits(s, p) ==
    IF s[p] # HASH THEN {}
    ELSE {k \in 1..SpaceRun(s, p + 1) : p + k + 1 <= Len(s) /\ s[p + k + 1] # NL}

\* Positions at which "^" matches under re.MULTILINE.
LineStarts(s) == {p \in 1..Len(s) : p = 1 \/ s[p - 1] = NL}

\* re.search(r'^#\s+(.+)$', content, re.MULTILINE): the leftmost position that
\* matches, with the longest "\s+" that lets the rest match (greedy, given up
\* one character at a time), and group 1 running to the end of its line.
heading_search(s) ==
    LET starts == {p \in LineStarts(s) : HeadingSplits(s, p) # {}}
    IN  IF starts = {} THEN [found |-> FALSE, group1 |-> <<>>, at |-> 0, from |-> 0]
        ELSE LET p == CHOOSE x \in starts : \A y \in starts : x <= y
                 k == CHOOSE x \in HeadingSplits(s, p) : \A y \in HeadingSplits(s, p) : y <= x
                 q == p + k + 1
             IN  [found |-> TRUE, group1 |-> SubSeq(s, q, LineEnd(s, q)), at |-> p, from |-> q]

get_file_title(name, content) ==
    LET match == heading_search(content)
    IN  IF match.found THEN strip(match.group1) ELSE filename_title(name)

\* ----------------------------------------------------------------- combiner

\* re.sub(pattern=r'^#\s+.+\n', repl='', string=s, count=1), without re.MULTILINE:
\* the pattern can match at the start of s only, "\s+" greedy and given up one
\* character at a time, ".+" running to the end of its line, which must end in '\n'.
sub_first_heading(s) ==
    LET splits == IF s = <<>> THEN {}
                  ELSE {k \in HeadingSplits(s, 1) : LineEnd(s, k + 2) < Len(s)}
    IN  IF splits = {} THEN s
        ELSE LET k == CHOOSE x \in splits : \A y \in splits : y <= x
             IN  SubSeq(s, LineEnd(s, k + 2) + 2, Len(s))

\* The text appended as the body of a file's section: lines 178 to 183.
section_body(content) ==
    LET stripped == IF startswith(lstrip(content), <<HASH, SPACE>>)
                    THEN sub_first_heading(lstrip(content))
                    ELSE content
    IN  strip(stripped)

\* The anchor of a table-of-contents entry.
anchor(title) == remove(remove(replace(lower(title), SPACE, HYPHEN), DOT), COLON)

\* One element of the list combined_content: which append produced it (tag), the
\* text interpolated into it (arg), and the exception message interpolated into
\* it (msg).
Fragment(tag, arg, msg) == [tag |-> tag, arg |-> arg, msg |-> msg]

\* The characters "{filename}": line 185 is a plain string literal, not an
\* f-string, so the end marker holds these ten characters as they stand.
FilenamePlaceholder == <<123, 102, 105, 108, 101, 110, 97, 109, 101, 125>>

\* Lines 145 to 147: the header of the combined document.
header ==
    << Fragment("TITLE", <<>>, ""), Fragment("GENERATED", <<>>, ""),
       Fragment("TOC_HEADING", <<>>, "") >>

\* Lines 173 to 186: the section of a file that was read.
file_section(filename, title, content) ==
    << Fragment("BEGIN", filename, ""),
       Fragment("HEADING", title, ""),
       Fragment("SOURCE", filename, ""),
       Fragment("BODY", section_body(content), ""),
       Fragment("BLANK", <<>>, ""),
       Fragment("END", FilenamePlaceholder, ""),
       Fragment("RULE", <<>>, "") >>

\* Lines 192 to 196: the section the handler of the body loop appends, with
\* whatever the local variable filename holds.
error_section(filename, msg) ==
    << Fragment("BEGIN_ERROR", filename, ""),
       Fragment("ERROR_HEADING", filename, ""),
       Fragment("ERROR_DETAILS", <<>>, msg),
       Fragment("END_ERROR", filename, ""),
       Fragment("RULE", <<>>, "") >>

\* Lines 155 and 157: the entries of the table of contents.
toc_entry(n, title) == [n |-> n, label |-> title, anchor |-> anchor(title), error |-> FALSE]

toc_error_entry(n, filename) == [n |-> n, label |-> filename, anchor |-> <<>>, error |-> TRUE]

\* ---------------------------------------------------------------- discovery

MD == <<DOT, 109, 100>>

\* A filter that compares the extension as it is written.
is_markdown_case_sensitive(file) == endswith(file, MD)

\* The filter of line 68.
is_markdown(file) == endswith(lower(file), MD)

RECURSIVE select_markdown(_)
select_markdown(listed) ==
    IF listed = <<>> THEN <<>>
    ELSE IF is_markdown(Head(listed)) THEN <<Head(listed)>> \o select_markdown(Tail(listed))
    ELSE select_markdown(Tail(listed))

\* list.sort(): the paths are os.path.join(directory, file) for one directory, so
\* they are ordered as their file names are.  Insertion into a sorted list, after
\* the elements that are not greater (the sort is stable).
RECURSIVE insert_sorted(_, _)
insert_sorted(sorted, x) ==
    IF sorted = <<>> THEN <<x>>
    ELSE IF StrLess(x, Head(sorted)) THEN <<x>> \o sorted
    ELSE <<Head(sorted)>> \o insert_sorted(Tail(sorted), x)

RECURSIVE sort(_)
sort(list) ==
    IF list = <<>> THEN <<>>
    ELSE insert_sorted(sort(SubSeq(list, 1, Len(list) - 1)), list[Len(list)])

\* A discovery without the test of line 61: os.listdir raises on the missing
\* directory and the handler of line 79 wraps what it raised.
find_markdown_files_unchecked(dir, listed) ==
    IF dir \in {"missing", "unlistable"}
    THEN Raises("Exception", "Error finding Markdown files")
    ELSE Returns(sort(select_markdown(listed)))

\* find_markdown_files on a directory in state dir ("missing", "unlistable": it
\* exists and os.listdir raises, or "dir") that os.listdir lists as listed.  A
\* path is modelled by its file name: os.path.basename undoes os.path.join.
find_markdown_files(dir, listed) ==
    IF dir = "missing" THEN Raises("FileNotFoundError", "Directory not found")
    ELSE IF dir = "unlistable" THEN Raises("Exception", "Error finding Markdown files")
    ELSE Returns(sort(select_markdown(listed)))

\* An exit status that is 0 only when main returned 0.
sys_exit_zero_only(returned) == IF returned = "0" THEN 0 ELSE 1

\* sys.exit(main()): the exit status of the process for what main returns.
sys_exit(returned) == IF returned = "1" THEN 1 ELSE 0

\* -------------------------------------------------------------------- state

VARIABLES
    docsDir,            \* DOCS_DIR on disk: "missing", "unlistable" or "dir"
    disk,               \* what each file name of DOCS_DIR holds
    outFile,            \* the output file: [exists, content]
    pc,                 \* where main is: "discover", "toc", "body", "write", "report", "exit"
    markdown_files,     \* main's markdown_files, the files of combine_markdown_files
    i,                  \* the files the running loop of combine_markdown_files is done with
    toc,                \* combine_markdown_files' toc
    combined_content,   \* combine_markdown_files' combined_content
    content,            \* the local variables content, title and filename of
    title,              \*   combine_markdown_files: [bound, value]
    filename,
    e,                  \* the exception an except clause caught last: [exc, msg]
    stdout,             \* the lines printed that report a warning, an error or the result
    returned            \* what main returned: "" while it runs, then "None", "0" or "1"

vars ==
    << docsDir, disk, outFile, pc, markdown_files, i, toc, combined_content,
       content, title, filename, e, stdout, returned >>

\* A local variable before its first assignment, and after one.
Unbound == [bound |-> FALSE, value |-> <<>>]

Bound(v) == [bound |-> TRUE, value |-> v]

\* The exception raised by a call: its type and its message.
Exc(raised) == [exc |-> raised.exc, msg |-> raised.msg]

NoException == [exc |-> "", msg |-> ""]

\* A printed line: its kind, the message of the exception it reports and the path
\* it names.
Line(tag, msg, path) == [tag |-> tag, msg |-> msg, path |-> path]

NoOutput == [exists |-> FALSE, content |-> <<>>]

\* The output file an earlier run on the same day left.
StaleOutput == [exists |-> TRUE, content |-> <<Fragment("EARLIER_RUN", <<>>, "")>>]

\* ------------------------------------------------------------ initial states

\* The names a directory of the model can hold: "a.md", "B.MD", "c.Md",
\* "my-notes_v2.md", and two that are no Markdown files, "a.txt" and "md".
DocNames ==
    { <<97, 46, 109, 100>>, <<66, 46, 77, 68>>, <<99, 46, 77, 100>>,
      <<109, 121, 45, 110, 111, 116, 101, 115, 95, 118, 50, 46, 109, 100>> }

OtherNames == { <<97, 46, 116, 120, 116>>, <<109, 100>> }

Names == DocNames \cup OtherNames

\* The contents a file of the many-file specification can have: "# T\nb" (a
\* heading and a body), "# T" (a heading that ends the file), "# \nb" (a heading
\* marker with nothing after it, then a line of text) and the single byte 0xE9
\* (no UTF-8, "e acute" in Latin-1).
SampleContents ==
    { <<35, 32, 84, 10, 98>>, <<35, 32, 84>>, <<35, 32, 10, 98>>, <<233>> }

\* The bytes of the contents of the one-file specification: "#", " ", tab, "\n",
\* "T", and 0xE9 and 0x80, which make well-formed UTF-8 only as E9 80 80.
ByteAlphabet == {HASH, SPACE, TAB, NL, 84, 233, 128}

ByteStrings == UNION {[1..n -> ByteAlphabet] : n \in 0..MaxLen}

\* The name of the file of the one-file specification: "my-notes_v2.md".
OneFileName == <<109, 121, 45, 110, 111, 116, 101, 115, 95, 118, 50, 46, 109, 100>>

Listing == {n \in Names : disk[n].kind # "missing"}

InitRun ==
    /\ pc = "discover"
    /\ markdown_files = <<>>
    /\ i = 0
    /\ toc = <<>>
    /\ combined_content = <<>>
    /\ content = Unbound
    /\ title = Unbound
    /\ filename = Unbound
    /\ e = NoException
    /\ stdout = <<>>
    /\ returned = ""

\* A run of main on a directory of at most MaxEntries entries, each Markdown
\* file with one of the sample contents or unreadable, or on no directory.
Init ==
    /\ docsDir \in {"missing", "unlistable", "dir"}
    /\ disk \in [Names -> {Missing, Unreadable, File(<<>>)} \cup {File(b) : b \in SampleContents}]
    /\ Cardinality(Listing) <= MaxEntries
    /\ docsDir # "dir" => Listing = {}
    /\ \A n \in DocNames : disk[n] # File(<<>>)
    /\ \A n \in OtherNames : disk[n] \in {Missing, File(<<>>)}
    /\ outFile \in {NoOutput, StaleOutput}
    /\ InitRun

\* A run of main on a directory that holds one Markdown file, of any content of at
\* most MaxLen bytes.
InitOneFile ==
    /\ docsDir = "dir"
    /\ \E b \in ByteStrings :
           disk = [n \in Names |-> IF n = OneFileName THEN File(b) ELSE Missing]
    /\ outFile = NoOutput
    /\ InitRun

\* ------------------------------------------------------------------ actions

\* The orders in which os.listdir can list the entries of the directory.
ListdirOrders ==
    {l \in [1..Cardinality(Listing) -> Listing] :
        \A a, b \in 1..Cardinality(Listing) : a # b => l[a] # l[b]}

\* main's handler of an exception that reaches it: lines 254 to 256.
MainExcept(type, msg) ==
    /\ e' = [exc |-> type, msg |-> msg]
    /\ stdout' = Append(stdout, Line("Error", msg, <<>>))
    /\ returned' = "1"
    /\ pc' = "exit"

\* main up to the call of combine_markdown_files, and that function up to its
\* first loop: lines 220 to 239 and 141 to 150.  OUTPUT_DIR is the directory
\* above the one that holds the script, so it exists and line 226 does not run.
Discover ==
    /\ pc = "discover"
    /\ \E listed \in ListdirOrders :
        LET found == find_markdown_files(docsDir, listed)
        IN  IF found.exc # ""
            THEN /\ MainExcept(found.exc, found.msg)
                 /\ UNCHANGED <<markdown_files, combined_content>>
            ELSE IF found.value = <<>>
            THEN /\ stdout' = stdout \o << Line("Warning", "No Markdown files found", <<>>),
                                           Line("Info", "No files to process. Exiting.", <<>>) >>
                 /\ returned' = "None"
                 /\ pc' = "exit"
                 /\ UNCHANGED <<markdown_files, combined_content, e>>
            ELSE /\ markdown_files' = found.value
                 /\ combined_content' = header
                 /\ pc' = "toc"
                 /\ UNCHANGED <<stdout, returned, e>>
    /\ UNCHANGED <<docsDir, disk, outFile, i, toc, content, title, filename>>

\* One iteration of the table-of-contents loop, lines 151 to 158, and after the
\* last one lines 160 and 161.
TocStep ==
    /\ pc = "toc"
    /\ LET file_path == markdown_files[i + 1]
           read == read_file_content(disk[file_path])
           entries == IF read.exc = ""
                      THEN Append(toc, toc_entry(i + 1, get_file_title(file_path, read.value)))
                      ELSE Append(toc, toc_error_entry(i + 1, file_path))
           last == i + 1 = Len(markdown_files)
       IN  /\ IF read.exc = ""
              THEN /\ content' = Bound(read.value)
                   /\ title' = Bound(get_file_title(file_path, read.value))
                   /\ UNCHANGED <<stdout, e>>
              ELSE /\ e' = Exc(read)
                   /\ stdout' = Append(stdout, Line("Warning", read.msg, file_path))
                   /\ UNCHANGED <<content, title>>
           /\ toc' = entries
           /\ i' = IF last THEN 0 ELSE i + 1
           /\ pc' = IF last THEN "body" ELSE "toc"
           /\ combined_content' =
                  IF last
                  THEN combined_content \o <<Fragment("TOC", <<>>, ""), Fragment("RULE", <<>>, "")>>
                  ELSE combined_content
    /\ UNCHANGED <<docsDir, disk, outFile, markdown_files, filename, returned>>

\* One iteration of the body loop, lines 164 to 197, and after the last one lines
\* 199 and 201 and main up to the call of write_output_file.  print_progress and
\* time.sleep change nothing main or the document depends on.  The handler of line
\* 191 reads the local variable filename, which only line 170 assigns: before the
\* first file that was read it is unbound, the handler raises UnboundLocalError,
\* and that exception leaves combine_markdown_files for main's handler.
BodyStep ==
    /\ pc = "body"
    /\ LET file_path == markdown_files[i + 1]
           read == read_file_content(disk[file_path])
           last == i + 1 = Len(markdown_files)
       IN  IF read.exc = ""
           THEN LET heading == get_file_title(file_path, read.value)
                    stripped == IF startswith(lstrip(read.value), <<HASH, SPACE>>)
                                THEN sub_first_heading(lstrip(read.value))
                                ELSE read.value
                IN  /\ content' = Bound(stripped)
                    /\ title' = Bound(heading)
                    /\ filename' = Bound(file_path)
                    /\ combined_content' =
                           combined_content \o file_section(file_path, heading, read.value)
                    /\ i' = i + 1
                    /\ pc' = IF last THEN "write" ELSE "body"
                    /\ UNCHANGED <<stdout, returned, e>>
           ELSE IF filename.bound
           THEN /\ e' = Exc(read)
                /\ combined_content' =
                       combined_content \o error_section(filename.value, read.msg)
                /\ stdout' = Append(stdout, Line("Error processing", read.msg, file_path))
                /\ i' = i + 1
                /\ pc' = IF last THEN "write" ELSE "body"
                /\ UNCHANGED <<content, title, filename, returned>>
           ELSE /\ MainExcept("UnboundLocalError",
                               "local variable 'filename' referenced before assignment")
                /\ UNCHANGED <<content, title, filename, combined_content, i>>
    /\ UNCHANGED <<docsDir, disk, outFile, markdown_files, toc>>

\* write_output_file, lines 203 to 216, as main calls it at line 248: open() or
\* write() either works or raises an OSError, which becomes an Exception that
\* main's handler reports.
write_output_file ==
    /\ pc = "write"
    /\ \E works \in BOOLEAN :
        IF works
        THEN /\ outFile' = [exists |-> TRUE, content |-> combined_content]
             /\ stdout' = Append(stdout, Line("Successfully created", "", <<>>))
             /\ pc' = "report"
             /\ UNCHANGED <<returned, e>>
        ELSE /\ MainExcept("Exception", "Error writing output file")
             /\ UNCHANGED outFile
    /\ UNCHANGED <<docsDir, disk, markdown_files, i, toc, combined_content,
                   content, title, filename>>

\* The end of main: lines 250 to 252 and 258.
Report ==
    /\ pc = "report"
    /\ stdout' = Append(stdout, Line("Completed", "", <<>>))
    /\ returned' = "0"
    /\ pc' = "exit"
    /\ UNCHANGED <<docsDir, disk, outFile, markdown_files, i, toc, combined_content,
                   content, title, filename, e>>

\* Something else removes a file the combiner still has to read, after discovery
\* listed it.
Vanish ==
    /\ pc \in {"toc", "body"}
    /\ \E k \in 1..Len(markdown_files) :
        /\ pc = "body" => k > i
        /\ disk[markdown_files[k]].kind # "missing"
        /\ disk' = [disk EXCEPT ![markdown_files[k]] = Missing]
    /\ UNCHANGED <<docsDir, outFile, pc, markdown_files, i, toc, combined_content,
                   content, title, filename, e, stdout, returned>>

Next ==
    \/ Discover
    \/ TocStep
    \/ BodyStep
    \/ write_output_file
    \/ Report
    \/ Vanish

Spec == Init /\ [][Next]_vars

SpecOneFile == InitOneFile /\ [][Next]_vars

\* ------------------------------------------------- reading the document

IsSectionStart(f) == f.tag \in {"BEGIN", "BEGIN_ERROR"}

\* The sections of the document so far, each by the fragment that begins it.
Sections == SelectSeq(combined_content, IsSectionStart)

\* The section the fragment at position j belongs to: the fragments that begin a
\* section, up to j.
SectionOf(j) == Cardinality({x \in 1..j : IsSectionStart(combined_content[x])})

Positions == 1..Len(combined_content)

\* The file the body loop is at, in a state where it has one ahead of it.
CurrentFile == markdown_files[i + 1]

\* ------------------------------------------------------------------- claims

\* C1: the claim as stated: a file whose read fails in the body pass never aborts
\* the run.  Once discovery has found files, main ends by writing the document
\* and returning 0; the only other way it ends is a failure of the write itself.
C1_FileFailureNeverAborts ==
    (pc = "exit" /\ markdown_files # <<>>) =>
        \/ returned = "0" /\ outFile = [exists |-> TRUE, content |-> combined_content]
        \/ returned = "1" /\ e.msg = "Error writing output file"

\* C2: the claim as stated: every file that was processed has exactly one begin
\* marker and exactly one end marker holding its file name, with the heading of
\* its section between the two.
C2_MarkerPairPerFile ==
    \A j \in Positions :
        combined_content[j].tag = "BEGIN" =>
            LET name == combined_content[j].arg
                begins == {x \in Positions : /\ combined_content[x].tag = "BEGIN"
                                             /\ combined_content[x].arg = name}
                ends == {x \in Positions : /\ combined_content[x].tag = "END"
                                           /\ combined_content[x].arg = name}
            IN  /\ name = markdown_files[SectionOf(j)]
                /\ begins = {j}
                /\ Cardinality(ends) = 1
                /\ \A x \in ends : \E h \in (j + 1)..(x - 1) :
                       combined_content[h].tag = "HEADING"

\* The body C3 describes for a content: when the content, its leading whitespace
\* trimmed, starts with a heading as the title extractor accepts one ("#",
\* whitespace, then text), that text without its first line; otherwise the
\* content; in both cases trimmed.
ExpectedBody(text) ==
    LET t == lstrip(text)
    IN  IF t # <<>> /\ HeadingSplits(t, 1) # {}
        THEN strip(SubSeq(t, LineEnd(t, 1) + 2, Len(t)))
        ELSE strip(text)

\* C3: the claim as stated: the body of the section of a file is its content
\* without the first heading line and nothing else removed (the content itself
\* when it starts with no heading), also when the heading line ends the file.
C3_FirstHeadingRemoved ==
    \A j \in Positions :
        combined_content[j].tag = "BODY" =>
            LET st == disk[markdown_files[SectionOf(j)]]
            IN  /\ st.kind = "file"
                /\ combined_content[j].arg = ExpectedBody(read_file_content(st).value)

\* C4: the claim as stated: during the body loop and in the document it returns,
\* the sections are those of the files processed so far, one each, in the order
\* of the sorted list.
C4_SectionsFollowFiles ==
    (pc \in {"body", "write", "report"} \/ (pc = "exit" /\ returned = "0")) =>
        /\ Len(Sections) = i
        /\ \A k \in 1..Len(Sections) : Sections[k].arg = markdown_files[k]

\* The lines of a text that begin with "#" followed by whitespace, by the position
\* of their "#".
HeadingLines(text) ==
    {p \in LineStarts(text) :
        /\ text[p] = HASH
        /\ p < Len(text)
        /\ IsSpace(text[p + 1])
        /\ text[p + 1] # NL}

\* The titles C8 allows for a content: the trimmed remainder of its first heading
\* line; the title made from the file name when it has no heading line.  A first
\* heading line with nothing after the marker is allowed either of the two.
AcceptableTitles(name, text) ==
    IF HeadingLines(text) = {} THEN {filename_title(name)}
    ELSE LET p == CHOOSE x \in HeadingLines(text) : \A y \in HeadingLines(text) : x <= y
             rest == strip(SubSeq(text, p + 2, LineEnd(text, p)))
         IN  IF rest # <<>> THEN {rest} ELSE {<<>>, filename_title(name)}

\* C8: the claim as stated: the title of a file is the trimmed remainder of the
\* first line of its content that begins with "#" and whitespace, text of that
\* line only, and the title made from the file name when there is no such line.
C8_TitleFromFirstHeadingLine ==
    \A j \in Positions :
        combined_content[j].tag = "HEADING" =>
            LET name == markdown_files[SectionOf(j)]
            IN  /\ disk[name].kind = "file"
                /\ combined_content[j].arg \in
                       AcceptableTitles(name, read_file_content(disk[name]).value)

\* C10: the claim as stated: the three fragments of an inline error section that
\* name a file name the file whose processing failed, the one at the position
\* of the section in the sorted list.
C10_ErrorSectionNamesFailedFile ==
    \A j \in Positions :
        combined_content[j].tag \in {"BEGIN_ERROR", "ERROR_HEADING", "END_ERROR"} =>
            combined_content[j].arg = markdown_files[SectionOf(j)]

\* A name ends in ".md" in some letter case.
IsMdName(n) ==
    /\ Len(n) >= 3
    /\ n[Len(n) - 2] = DOT
    /\ n[Len(n) - 1] \in {109, 77}
    /\ n[Len(n)] \in {100, 68}

\* a comes before b in lexicographic order: they agree up to some position, where
\* a ends and b does not, or a has the smaller character.
LexBefore(a, b) ==
    \E k \in 1..(Len(b)) :
        /\ k <= Len(a) + 1
        /\ SubSeq(a, 1, k - 1) = SubSeq(b, 1, k - 1)
        /\ (k = Len(a) + 1 \/ a[k] < b[k])

\* C5: when discovery runs on an existing directory it returns the entries whose
\* name ends in ".md" in any letter case, no other entry, each once, in ascending
\* lexicographic order.
C5_DiscoveryExactAndSorted ==
    [][ (pc = "discover" /\ docsDir = "dir" /\ pc' # "discover") =>
            /\ {markdown_files'[k] : k \in 1..Len(markdown_files')}
                   = {n \in Listing : IsMdName(n)}
            /\ Len(markdown_files') = Cardinality({n \in Listing : IsMdName(n)})
            /\ \A a, b \in 1..Len(markdown_files') :
                   a < b => LexBefore(markdown_files'[a], markdown_files'[b]) ]_vars

\* Witness of C5: discovery returned two or more files, one of them with an
\* upper-case extension, from a directory that also holds another entry.
C5_Witness ==
    /\ pc = "toc" /\ i = 0
    /\ Len(markdown_files) >= 2
    /\ \E k \in 1..Len(markdown_files) : ~endswith(markdown_files[k], MD)
    /\ \E n \in OtherNames : n \in Listing

\* C6: when the source directory does not exist the run never reaches the
\* combiner or the writer, leaves the output file as it was, and ends with the
\* directory-not-found error reported and exit status 1.
C6_MissingDirectoryIsFatal ==
    docsDir = "missing" =>
        /\ pc \in {"discover", "exit"}
        /\ combined_content = <<>>
        /\ outFile \in {NoOutput, StaleOutput}
        /\ pc = "exit" =>
               /\ e = [exc |-> "FileNotFoundError", msg |-> "Directory not found"]
               /\ stdout = <<Line("Error", "Directory not found", <<>>)>>
               /\ returned = "1"
               /\ sys_exit(returned) = 1

\* Witness of C6: a run on a missing directory has ended, with the output file of
\* an earlier run in place.
C6_Witness == docsDir = "missing" /\ pc = "exit" /\ outFile = StaleOutput

\* The place of each position of main in the order Discover, Combine (its two
\* loops), Write, Report, exit.
Rank(p) ==
    IF p = "discover" THEN 1
    ELSE IF p = "toc" THEN 2
    ELSE IF p = "body" THEN 3
    ELSE IF p = "write" THEN 4
    ELSE IF p = "report" THEN 5
    ELSE 6

\* C7: main never goes back to an earlier stage and enters Combine only from
\* Discover, Write only from Combine and Report only from Write; a discovery that
\* finds no file ends the run at once, with exit status 0 and the output file
\* untouched; a run that completed Write ends with exit status 0.
C7_StagesInOrder ==
    [][ /\ Rank(pc') >= Rank(pc)
        /\ (pc' = "toc" /\ pc # "toc") => pc = "discover"
        /\ (pc' = "body" /\ pc # "body") => pc = "toc"
        /\ (pc' = "write" /\ pc # "write") => pc = "body"
        /\ (pc' = "report" /\ pc # "report") => pc = "write"
        /\ pc = "exit" => pc' = "exit"
        /\ (pc = "discover" /\ docsDir = "dir" /\ pc' # "discover"
                /\ {n \in Listing : IsMdName(n)} = {}) =>
               /\ pc' = "exit"
               /\ sys_exit(returned') = 0
               /\ outFile' = outFile
               /\ combined_content' = <<>>
               /\ stdout'[1].tag = "Warning"
        /\ (pc = "report" /\ pc' # "report") => (pc' = "exit" /\ sys_exit(returned') = 0)
      ]_vars

\* Witness of C7: a run on a directory that holds entries, none of them a
\* Markdown file, has ended without an output file.
C7_Witness ==
    /\ pc = "exit" /\ returned = "None"
    /\ docsDir = "dir" /\ Listing # {}
    /\ outFile = NoOutput

\* The encodings in the order C9 gives.
ClaimedOrder == <<"utf-8", "latin-1", "windows-1252", "ascii">>

\* The encodings of ClaimedOrder, by position, under which the bytes decode.
Decodable(b) == {k \in 1..Len(ClaimedOrder) : decode(b, ClaimedOrder[k]).ok}

\* C9: a read returns the text of the first encoding, in the order UTF-8, Latin-1,
\* Windows-1252, ASCII, under which the file decodes; it fails with a decode error
\* when there is none, and with a not-found error when the path does not exist.
\* The reads looked at are those of the table-of-contents loop, which keeps what
\* the reader returned in content and what it raised in e.
C9_ReaderFallbackOrder ==
    [][ (pc = "toc" /\ toc' # toc) =>
            LET st == disk[CurrentFile]
            IN  /\ st.kind = "missing" => (e'.exc = "FileNotFoundError" /\ content' = content)
                /\ (st.kind = "file" /\ Decodable(st.bytes) # {}) =>
                       LET k == CHOOSE x \in Decodable(st.bytes) :
                                    \A y \in Decodable(st.bytes) : x <= y
                       IN  /\ content' = Bound(universal_newlines(
                                               decode(st.bytes, ClaimedOrder[k]).text))
                           /\ e' = e
                /\ (st.kind = "file" /\ Decodable(st.bytes) = {}) =>
                       e'.exc = "UnicodeDecodeError" ]_vars

\* Witness of C9: the one file of the directory is no UTF-8 and the reader
\* returned its Latin-1 text.
C9_Witness ==
    /\ pc = "body" /\ i = 0
    /\ Len(markdown_files) = 1
    /\ disk[markdown_files[1]].kind = "file"
    /\ ~decode_utf8(disk[markdown_files[1]].bytes).ok
    /\ content = Bound(universal_newlines(disk[markdown_files[1]].bytes))

====
